---- MODULE Spec2Model ----
(***************************************************************************)
(* Model of fsearch.py: the two traversal strategies fast_find (os.scandir *)
(* recursion) and find_with_depth (Path.rglob plus depth filter), the name *)
(* matcher, the include filter and the content matcher search_in_file.     *)
(*                                                                         *)
(* Strings are sequences of one-character strings.  A directory tree is a  *)
(* sequence of entry records; entry 0 stands for base_dir itself.  One     *)
(* behaviour is one choice of arguments and of the filesystem, on which    *)
(* fast_find is called and then find_with_depth is called with the same    *)
(* arguments.                                                              *)
(***************************************************************************)
EXTENDS Integers, Sequences, FiniteSets, TLC

\* ------------------------------------------------------------------ bounds
\* max_depth is drawn from -1 .. MaxDepthArg
MaxDepthArg == 2

\* ------------------------------------------------------- program constants
MAX_LINE_LENGTH == 10000

\* ------------------------------------------------------------ str methods
\* str.lower() on one character
LowerChar(c) ==
    CASE c = "A" -> "a" [] c = "B" -> "b" [] c = "C" -> "c" [] c = "D" -> "d"
      [] c = "E" -> "e" [] c = "F" -> "f" [] c = "G" -> "g" [] c = "H" -> "h"
      [] c = "I" -> "i" [] c = "J" -> "j" [] c = "K" -> "k" [] c = "L" -> "l"
      [] c = "M" -> "m" [] c = "N" -> "n" [] c = "O" -> "o" [] c = "P" -> "p"
      [] c = "Q" -> "q" [] c = "R" -> "r" [] c = "S" -> "s" [] c = "T" -> "t"
      [] c = "U" -> "u" [] c = "V" -> "v" [] c = "W" -> "w" [] c = "X" -> "x"
      [] c = "Y" -> "y" [] c = "Z" -> "z" [] OTHER -> c

\* str.lower()
Lower(s) == [i \in DOMAIN s |-> LowerChar(s[i])]

\* the `in` operator on two strings: needle occurs in hay as a substring
Contains(needle, hay) ==
    \E i \in 0 .. (Len(hay) - Len(needle)) :
        SubSeq(hay, i + 1, i + Len(needle)) = needle

\* str.replace('*', '')
ReplaceStar(s) == SelectSeq(s, LAMBDA c : c # "*")

\* str.strip() (the only whitespace of the model is the blank)
RECURSIVE Strip(_)
Strip(s) ==
    IF s = <<>> THEN s
    ELSE IF Head(s) = " " THEN Strip(Tail(s))
    ELSE IF s[Len(s)] = " " THEN Strip(SubSeq(s, 1, Len(s) - 1))
    ELSE s

\* str.split(',')
RECURSIVE SplitComma(_)
SplitComma(s) ==
    IF \A i \in DOMAIN s : s[i] # ","
    THEN <<s>>
    ELSE LET i == CHOOSE k \in DOMAIN s :
                      s[k] = "," /\ \A j \in 1 .. (k - 1) : s[j] # ","
         IN  <<SubSeq(s, 1, i - 1)>> \o SplitComma(SubSeq(s, i + 1, Len(s)))

\* fnmatch.fnmatch(name, pat) on POSIX (normcase is the identity there):
\* '*' matches any run of characters, '?' exactly one, the match is anchored.
\* The alphabet of the model has no '[' so character classes do not occur.
RECURSIVE fnmatch(_, _)
fnmatch(name, pat) ==
    IF pat = <<>> THEN name = <<>>
    ELSE IF Head(pat) = "*"
         THEN fnmatch(name, Tail(pat))
              \/ (name # <<>> /\ fnmatch(Tail(name), pat))
         ELSE /\ name # <<>>
              /\ (Head(pat) = "?" \/ Head(pat) = Head(name))
              /\ fnmatch(Tail(name), Tail(pat))

\* ------------------------------------------------------------- filesystem
\* A line of a file: its text without the terminator, followed by `pad`
\* filler characters that occur in no pattern, followed by the newline.
Ln(text) == [text |-> text, pad |-> 0]
LongLn(text) == [text |-> text, pad |-> MAX_LINE_LENGTH]

\* len(line) as the line reader sees it (terminator included)
LineLen(l) == Len(l.text) + l.pad + 1

File(name, parent, lines) ==
    [name |-> name, kind |-> "file", parent |-> parent, lines |-> lines,
     binary |-> FALSE]
BinFile(name, parent) ==
    [name |-> name, kind |-> "file", parent |-> parent, lines |-> <<>>,
     binary |-> TRUE]
Dir(name, parent) ==
    [name |-> name, kind |-> "dir", parent |-> parent, lines |-> <<>>,
     binary |-> FALSE]

\* a symbolic link to a directory: target is the entry it points to (0 =
\* base_dir)
Link(name, parent, target) ==
    [name |-> name, kind |-> "link", parent |-> parent, lines |-> <<>>,
     binary |-> FALSE, target |-> target]

\* root/{a.py, b.txt, sub/{c.py}}
Tree1 ==
    << File(<<"a", ".", "p", "y">>, 0,
            << Ln(<<"x", "=", "1">>),
               Ln(<<"#", " ", "T", "O", "D", "O", " ", "f", "i", "x">>) >>),
       File(<<"b", ".", "t", "x", "t">>, 0,
            << LongLn(<<"T", "O", "D", "O">>),
               Ln(<<"T", "O", "D", "O">>),
               Ln(<<"s", "u", "b", "?">>) >>),
       Dir(<<"s", "u", "b">>, 0),
       File(<<"c", ".", "p", "y">>, 3, << Ln(<<"t", "o", "d", "o">>) >>) >>

\* root/{d1/{e.py}, Sub/{TODO.PY, deep/{g.py, todo.bin}}}
Tree2 ==
    << Dir(<<"d", "1">>, 0),
       File(<<"e", ".", "p", "y">>, 1, << Ln(<<"T", "O", "D", "O">>) >>),
       Dir(<<"S", "u", "b">>, 0),
       File(<<"T", "O", "D", "O", ".", "P", "Y">>, 3,
            << Ln(<<"#", " ", "t", "o", "d", "o">>),
               Ln(<<"S", "u", "b">>) >>),
       Dir(<<"d", "e", "e", "p">>, 3),
       File(<<"g", ".", "p", "y">>, 5, << Ln(<<"T", "O", "D", "O">>) >>),
       BinFile(<<"t", "o", "d", "o", ".", "b", "i", "n">>, 5) >>

\* root/{sub/{subl -> root, m.py}, lnk -> root/sub}
Tree3 ==
    << Dir(<<"s", "u", "b">>, 0),
       Link(<<"s", "u", "b", "l">>, 1, 0),
       File(<<"m", ".", "p", "y">>, 1, << Ln(<<"T", "O", "D", "O">>) >>),
       Link(<<"l", "n", "k">>, 0, 1) >>

Trees == <<Tree1, Tree2, Tree3>>

\* ---------------------------------------------------------------- inputs
Patterns ==
    { <<"*", ".", "p", "y">>,
      <<"T", "O", "D", "O">>,
      <<"s", "u", "b">>,
      <<"s", "u", "b", "?">>,
      <<"*", "o", "*">> }

IncludeArgs ==
    { <<>>,
      <<"*", ".", "p", "y">>,
      <<"*", ".", "P", "Y", ",", " ", "*", ".", "t", "x", "t", ",">> }

\* what base_dir names: an absolute or a relative path of a directory, a
\* regular file, or nothing
BaseDirs == {"abs_dir", "rel_dir", "file", "missing"}

VARIABLES
    tree,            \* index into Trees: the directory tree under base_dir
    base_dir, pattern, max_depth, include_dirs, case_insensitive,
    search_in_files, include_pattern,        \* the arguments of both calls
    fault,           \* the I/O failure of this run, if any
    pcA, errA, matchesA, stackA, visitedA, listedA, fsA, needlesA,
    pcB, errB, matchesB, pendingB, todoB, visitedB, fsB, needlesB

args == <<tree, base_dir, pattern, max_depth, include_dirs, case_insensitive,
          search_in_files, include_pattern, fault>>
varsA == <<pcA, errA, matchesA, stackA, visitedA, listedA, fsA, needlesA>>
varsB == <<pcB, errB, matchesB, pendingB, todoB, visitedB, fsB, needlesB>>
vars == <<args, varsA, varsB>>

T == Trees[tree]
Nodes == 1 .. Len(T)
IsFile(n) == T[n].kind = "file"
IsDir(n) == T[n].kind = "dir"
IsLink(n) == T[n].kind = "link"

\* the directory whose entries os.scandir(path) lists: the system follows a
\* symbolic link given as the path
ScandirDir(d) == IF d # 0 /\ IsLink(d) THEN T[d].target ELSE d

\* entries of directory d (0 = base_dir) in enumeration order
Children(d) ==
    LET all == [i \in Nodes |-> i]
    IN  SelectSeq(all, LAMBDA n : T[n].parent = d)
SubDirs(d) == SelectSeq(Children(d), IsDir)

\* number of path components between base_dir and the entry, minus one:
\* the direct children of base_dir have depth 0
RECURSIVE Depth(_)
Depth(n) == IF T[n].parent = 0 THEN 0 ELSE 1 + Depth(T[n].parent)

RECURSIVE Under(_, _)
\* n lies strictly below directory d
Under(n, d) ==
    IF T[n].parent = d THEN TRUE
    ELSE IF T[n].parent = 0 THEN FALSE
    ELSE Under(T[n].parent, d)

\* --------------------------------------------------------- content matcher
\* is_binary_file: the verdict on the first DEFAULT_CHECK_BYTES bytes
is_binary_file(n) == T[n].binary

\* read_file_lines: [] for a binary file, else the lines of the file without
\* those longer than max_line_length
read_file_lines(n) ==
    IF is_binary_file(n) THEN <<>>
    ELSE SelectSeq(T[n].lines, LAMBDA l : ~(LineLen(l) > MAX_LINE_LENGTH))

\* search_in_file: the pairs (i, line) of enumerate(content) with the
\* pattern in the line; i counts from 0 over the lines that were kept
search_in_file(pat, n) ==
    LET content == read_file_lines(n)
        numbered == [i \in 1 .. Len(content) |-> <<i - 1, content[i]>>]
    IN  IF content = <<>> THEN <<>>
        ELSE SelectSeq(numbered, LAMBDA m : Contains(pat, m[2].text))

\* ------------------------------------------------------------ name matcher
\* parse_include_patterns
parse_include_patterns(inc, ci) ==
    IF inc = <<>> THEN <<>>
    ELSE LET parts    == SplitComma(inc)
             stripped == [i \in DOMAIN parts |-> Strip(parts[i])]
             patterns == SelectSeq(stripped, LAMBDA q : q # <<>>)
         IN  IF ci THEN [i \in DOMAIN patterns |-> Lower(patterns[i])]
             ELSE patterns

\* matches_include_pattern
matches_include_pattern(filename, include_patterns, ci) ==
    IF include_patterns = <<>> THEN TRUE
    ELSE LET fname == IF ci THEN Lower(filename) ELSE filename
         IN  \E i \in DOMAIN include_patterns :
                 fnmatch(fname, include_patterns[i])

\* ------------------------------------------------- locals of both strategies
include_patterns == parse_include_patterns(include_pattern, case_insensitive)
is_wildcard == (\E i \in DOMAIN pattern : pattern[i] = "*")
               \/ (\E i \in DOMAIN pattern : pattern[i] = "?")
match_pattern == IF case_insensitive THEN Lower(pattern) ELSE pattern

\* the override forgotten: the caller's include_dirs is used as passed
include_dirs_kept(inc) == inc

\* `if search_in_files: include_dirs = False`: the value of include_dirs in
\* the traversal, from the value inc the caller passed
include_dirs_eff(inc) == IF search_in_files THEN FALSE ELSE inc

\* the literal handed to search_in_file: match_pattern.replace('*', '')
content_needle == ReplaceStar(match_pattern)

\* result elements: a plain path (a str) or [path, found_lines]
PlainMatch(path) == [kind |-> "plain", path |-> path, lines |-> <<>>]
ContentMatch(path, found) == [kind |-> "content", path |-> path, lines |-> found]

\* the failure of this run hits the stat of entry n / the listing of dir d
EntryFails(n) == fault.kind = "entry" /\ fault.node = n
EnumFails(d) == fault.kind = "enum" /\ fault.node = d

\* ------------------------------------------------- Strategy A: fast_find
\* entry.path: os.path.join of base_dir as given and the names below it
PathA(n) == [abs |-> base_dir = "abs_dir", node |-> n]

\* the validation without its max_depth test
ValidateA_NoDepthTest ==
    IF base_dir = "missing" THEN "NotFound"
    ELSE IF base_dir = "file" THEN "NotADirectory"
    ELSE "ok"

\* the validation at the head of fast_find: the kind of the SearchError
\* raised, or "ok"
ValidateA ==
    IF base_dir = "missing" THEN "NotFound"
    ELSE IF base_dir = "file" THEN "NotADirectory"
    ELSE IF max_depth < 0 THEN "InvalidArgument"
    ELSE "ok"

\* the filesystem tests performed by that validation
ValidateFsA ==
    IF base_dir = "missing" THEN {"exists"} ELSE {"exists", "isdir"}

\* the depth test off by one: `if current_depth >= max_depth: return`
DepthExceededA_OffByOne(current_depth) == current_depth >= max_depth

\* `if current_depth > max_depth: return`
DepthExceededA(current_depth) == current_depth > max_depth

\* the include filter on a file entry: TRUE when the entry is skipped
SkippedA(n) ==
    IsFile(n) /\ ~matches_include_pattern(T[n].name, include_patterns,
                                         case_insensitive)

\* is_match of the loop body of search()
IsMatchA(n) ==
    LET entry_name == IF case_insensitive THEN Lower(T[n].name) ELSE T[n].name
    IN  IF is_wildcard THEN fnmatch(entry_name, match_pattern)
        ELSE Contains(match_pattern, entry_name)

\* what the loop body of search() appends to matches for entry n,
\* inc_dirs being the value of include_dirs in the traversal
AppendedA(n, inc_dirs) ==
    IF SkippedA(n) THEN <<>>
    ELSE IF IsMatchA(n) /\ (inc_dirs \/ IsFile(n))
    THEN IF search_in_files /\ IsFile(n)
         THEN LET found_lines == search_in_file(content_needle, n)
              IN  IF found_lines # <<>>
                  THEN <<ContentMatch(PathA(n), found_lines)>> ELSE <<>>
         ELSE <<PlainMatch(PathA(n))>>
    ELSE IF search_in_files /\ IsFile(n)
    THEN LET found_lines == search_in_file(content_needle, n)
         IN  IF found_lines # <<>>
             THEN <<ContentMatch(PathA(n), found_lines)>> ELSE <<>>
    ELSE <<>>

\* the literals the loop body hands to search_in_file for entry n
NeedlesOfA(n) ==
    IF ~SkippedA(n) /\ search_in_files /\ IsFile(n)
    THEN {content_needle} ELSE {}

\* the recursion test following links: `if entry.is_dir():`
RecursesIntoA_FollowLinks(n) == IsDir(n) \/ IsLink(n)

\* `if entry.is_dir(follow_symlinks=False):`
RecursesIntoA(n) == IsDir(n)

Frame(d, depth) == [dir |-> d, depth |-> depth, opened |-> FALSE, todo |-> <<>>]
Top(st) == st[Len(st)]
Pop(st) == SubSeq(st, 1, Len(st) - 1)
SetTop(st, f) == [st EXCEPT ![Len(st)] = f]

\* fast_find is called: validation, setup and the call search(base_dir, 0)
FastFindCall ==
    /\ pcA = "idle"
    /\ fsA' = fsA \cup ValidateFsA
    /\ IF ValidateA # "ok"
       THEN /\ pcA' = "raised"
            /\ errA' = ValidateA
            /\ UNCHANGED stackA
       ELSE /\ pcA' = "running"
            /\ stackA' = <<Frame(0, 0)>>
            /\ UNCHANGED errA
    /\ UNCHANGED <<matchesA, visitedA, listedA, needlesA, args, varsB>>

\* search(current_dir, current_depth) begins: the depth test and os.scandir
SearchEnter ==
    /\ pcA = "running"
    /\ stackA # <<>>
    /\ ~Top(stackA).opened
    /\ LET f == Top(stackA)
       IN  IF DepthExceededA(f.depth)
           THEN stackA' = Pop(stackA) /\ UNCHANGED <<fsA, listedA>>
           ELSE /\ fsA' = fsA \cup {"scandir"}
                /\ IF EnumFails(ScandirDir(f.dir))
                   THEN stackA' = Pop(stackA) /\ UNCHANGED listedA
                   ELSE /\ stackA' = SetTop(stackA,
                               [f EXCEPT !.opened = TRUE,
                                         !.todo = Children(ScandirDir(f.dir))])
                        /\ listedA' = Append(listedA, f.dir)
    /\ UNCHANGED <<pcA, errA, matchesA, visitedA, needlesA, args, varsB>>

\* one iteration of `for entry in entries`
SearchEntry ==
    /\ pcA = "running"
    /\ stackA # <<>>
    /\ Top(stackA).opened
    /\ Top(stackA).todo # <<>>
    /\ LET f    == Top(stackA)
           n    == Head(f.todo)
           rest == SetTop(stackA, [f EXCEPT !.todo = Tail(f.todo)])
       IN  IF EntryFails(n)
           THEN /\ stackA' = rest
                /\ UNCHANGED <<matchesA, visitedA, needlesA>>
           ELSE /\ matchesA' = matchesA \o AppendedA(n, include_dirs_eff(include_dirs))
                /\ visitedA' = Append(visitedA, n)
                /\ needlesA' = needlesA \cup NeedlesOfA(n)
                /\ stackA' = IF ~SkippedA(n) /\ RecursesIntoA(n)
                             THEN Append(rest, Frame(n, f.depth + 1))
                             ELSE rest
    /\ UNCHANGED <<pcA, errA, listedA, fsA, args, varsB>>

\* the loop of search() is exhausted: the call returns
SearchReturn ==
    /\ pcA = "running"
    /\ stackA # <<>>
    /\ Top(stackA).opened
    /\ Top(stackA).todo = <<>>
    /\ stackA' = Pop(stackA)
    /\ UNCHANGED <<pcA, errA, matchesA, visitedA, listedA, fsA, needlesA, args,
                   varsB>>

\* `return matches`
FastFindReturn ==
    /\ pcA = "running"
    /\ stackA = <<>>
    /\ pcA' = "returned"
    /\ UNCHANGED <<errA, matchesA, stackA, visitedA, listedA, fsA, needlesA,
                   args, varsB>>

\* --------------------------------------------- Strategy B: find_with_depth
\* str(p.resolve()): always an absolute path, and the target in place of a
\* symbolic link
PathB(n) == [abs |-> TRUE, node |-> IF IsLink(n) THEN T[n].target ELSE n]

\* the validation at the head of find_with_depth
ValidateB ==
    IF base_dir = "missing" THEN "NotFound"
    ELSE IF max_depth < 0 THEN "InvalidArgument"
    ELSE "ok"

\* the filesystem tests performed by that validation
ValidateFsB == {"exists"}

\* len(p.relative_to(base).parts)
RECURSIVE relative_depth(_)
relative_depth(n) ==
    IF T[n].parent = 0 THEN 1 ELSE 1 + relative_depth(T[n].parent)

\* `if relative_depth > max_depth: continue`
DepthExceededB(n) == relative_depth(n) > max_depth

SkippedB(n) ==
    IsFile(n) /\ ~matches_include_pattern(T[n].name, include_patterns,
                                         case_insensitive)

IsMatchB(n) ==
    LET name_to_match == IF case_insensitive THEN Lower(T[n].name)
                         ELSE T[n].name
    IN  IF is_wildcard THEN fnmatch(name_to_match, match_pattern)
        ELSE Contains(match_pattern, name_to_match)

\* what the loop body of find_with_depth appends to matches for path n,
\* inc_dirs being the value of include_dirs in the traversal
AppendedB(n, inc_dirs) ==
    IF SkippedB(n) THEN <<>>
    ELSE IF IsMatchB(n) /\ (inc_dirs \/ IsFile(n))
    THEN IF search_in_files /\ IsFile(n)
         THEN LET found_lines == search_in_file(content_needle, n)
              IN  IF found_lines # <<>>
                  THEN <<ContentMatch(PathB(n), found_lines)>> ELSE <<>>
         ELSE <<PlainMatch(PathB(n))>>
    ELSE IF search_in_files /\ IsFile(n)
    THEN LET found_lines == search_in_file(content_needle, n)
         IN  IF found_lines # <<>>
             THEN <<ContentMatch(PathB(n), found_lines)>> ELSE <<>>
    ELSE <<>>

NeedlesOfB(n) ==
    IF ~SkippedB(n) /\ search_in_files /\ IsFile(n)
    THEN {content_needle} ELSE {}

\* find_with_depth is called (after fast_find has finished): validation,
\* setup and the creation of the generator base.rglob("*"), which yields
\* nothing when base is not a directory
FindWithDepthCall ==
    /\ pcA \in {"returned", "raised"}
    /\ pcB = "idle"
    /\ fsB' = fsB \cup ValidateFsB
    /\ IF ValidateB # "ok"
       THEN /\ pcB' = "raised"
            /\ errB' = ValidateB
            /\ UNCHANGED pendingB
       ELSE /\ pcB' = "running"
            /\ pendingB' = IF base_dir = "file" THEN <<>> ELSE <<0>>
            /\ UNCHANGED errB
    /\ UNCHANGED <<matchesB, todoB, visitedB, needlesB, args, varsA>>

\* rglob lists the next directory, in pre-order: its entries are yielded
\* before any of its subdirectories is listed
RglobListDir ==
    /\ pcB = "running"
    /\ todoB = <<>>
    /\ pendingB # <<>>
    /\ ~EnumFails(Head(pendingB))
    /\ todoB' = Children(Head(pendingB))
    /\ pendingB' = SubDirs(Head(pendingB)) \o Tail(pendingB)
    /\ fsB' = fsB \cup {"scandir"}
    /\ UNCHANGED <<pcB, errB, matchesB, visitedB, needlesB, args, varsA>>

\* the listing of the next directory fails and rglob absorbs the failure
\* (a PermissionError, or any OSError from Python 3.12 on): the directory
\* yields nothing
RglobSkipDir ==
    /\ pcB = "running"
    /\ todoB = <<>>
    /\ pendingB # <<>>
    /\ EnumFails(Head(pendingB))
    /\ pendingB' = Tail(pendingB)
    /\ fsB' = fsB \cup {"scandir"}
    /\ UNCHANGED <<pcB, errB, matchesB, todoB, visitedB, needlesB, args, varsA>>

\* the listing of the next directory fails and the generator raises (another
\* OSError up to Python 3.11): `except Exception` around the for loop ends
\* the loop and the function returns the matches collected so far
RglobRaise ==
    /\ pcB = "running"
    /\ todoB = <<>>
    /\ pendingB # <<>>
    /\ EnumFails(Head(pendingB))
    /\ pcB' = "returned"
    /\ fsB' = fsB \cup {"scandir"}
    /\ UNCHANGED <<errB, matchesB, pendingB, todoB, visitedB, needlesB, args,
                   varsA>>

\* one iteration of `for p in base.rglob("*")`
LoopBodyB ==
    /\ pcB = "running"
    /\ todoB # <<>>
    /\ LET n == Head(todoB)
       IN  /\ todoB' = Tail(todoB)
           /\ IF DepthExceededB(n) \/ EntryFails(n)
              THEN UNCHANGED <<matchesB, visitedB, needlesB>>
              ELSE /\ matchesB' = matchesB \o AppendedB(n, include_dirs_eff(include_dirs))
                   /\ visitedB' = Append(visitedB, n)
                   /\ needlesB' = needlesB \cup NeedlesOfB(n)
    /\ UNCHANGED <<pcB, errB, pendingB, fsB, args, varsA>>

\* the generator is exhausted: `return matches`
FindWithDepthReturn ==
    /\ pcB = "running"
    /\ todoB = <<>>
    /\ pendingB = <<>>
    /\ pcB' = "returned"
    /\ UNCHANGED <<errB, matchesB, pendingB, todoB, visitedB, fsB, needlesB,
                   args, varsA>>

\* ------------------------------------------------------------ specification
Faults(t) ==
    {[kind |-> "none", node |-> 0]}
    \cup {[kind |-> "entry", node |-> n] : n \in 1 .. Len(Trees[t])}
    \cup {[kind |-> "enum", node |-> d] :
              d \in {0} \cup {n \in 1 .. Len(Trees[t]) : Trees[t][n].kind = "dir"}}

Init ==
    /\ tree \in DOMAIN Trees
    /\ base_dir \in BaseDirs
    /\ pattern \in Patterns
    /\ max_depth \in -1 .. MaxDepthArg
    /\ include_dirs \in BOOLEAN
    /\ case_insensitive \in BOOLEAN
    /\ search_in_files \in BOOLEAN
    /\ include_pattern \in IncludeArgs
    /\ fault \in Faults(tree)
    /\ pcA = "idle" /\ errA = "none" /\ matchesA = <<>> /\ stackA = <<>>
    /\ visitedA = <<>> /\ listedA = <<>> /\ fsA = {} /\ needlesA = {}
    /\ pcB = "idle" /\ errB = "none" /\ matchesB = <<>> /\ pendingB = <<>>
    /\ todoB = <<>> /\ visitedB = <<>> /\ fsB = {} /\ needlesB = {}

Next ==
    \/ FastFindCall
    \/ SearchEnter
    \/ SearchEntry
    \/ SearchReturn
    \/ FastFindReturn
    \/ FindWithDepthCall
    \/ RglobListDir
    \/ RglobSkipDir
    \/ RglobRaise
    \/ LoopBodyB
    \/ FindWithDepthReturn

Spec == Init /\ [][Next]_vars

\* one call of fast_find alone, as main makes it with --method 1: without
\* include filter and content search, on a base_dir that is a directory or is
\* missing
FastFindInit ==
    /\ Init
    /\ base_dir \in {"abs_dir", "missing"}
    /\ include_pattern = <<>>
    /\ ~search_in_files

FastFindNext ==
    \/ FastFindCall
    \/ SearchEnter
    \/ SearchEntry
    \/ SearchReturn
    \/ FastFindReturn

\* the call runs in one thread, without suspension: a step that can be taken
\* is taken
FastFindSpec ==
    FastFindInit /\ [][FastFindNext]_vars /\ WF_vars(FastFindNext)

\* ------------------------------------------------------------- properties
Range(q) == {q[i] : i \in DOMAIN q}
NoFault == fault.kind = "none"
BaseIsDir == base_dir \in {"abs_dir", "rel_dir"}

\* the entries of a result list, whatever the form of their paths
NodesOf(m) == {m[i].path.node : i \in DOMAIN m}
EntriesOf(m) ==
    {[kind |-> m[i].kind, node |-> m[i].path.node, lines |-> m[i].lines] :
        i \in DOMAIN m}

\* the entries at depth <= max_depth, the children of base_dir at depth 0
WithinDepth == {n \in Nodes : Depth(n) <= max_depth}

HasNoSymlink == \A n \in Nodes : ~IsLink(n)

\* C1: on a tree without symbolic links and for max_depth >= 0, fast_find and
\* find_with_depth return the same set of matched entries, ignoring order.
C1_SameResultSet ==
    (pcA = "returned" /\ pcB = "returned" /\ NoFault /\ max_depth >= 0
       /\ HasNoSymlink)
        => EntriesOf(matchesA) = EntriesOf(matchesB)

\* C2: in both strategies an entry is examined exactly when its depth d (the
\* children of base_dir at depth 0) satisfies d <= max_depth, and no entry
\* with depth > max_depth is in the result.
C2_ExaminedIffWithinDepth ==
    (NoFault /\ BaseIsDir) =>
        /\ pcA = "returned" =>
              Range(visitedA) = WithinDepth /\ NodesOf(matchesA) \subseteq WithinDepth
        /\ pcB = "returned" =>
              Range(visitedB) = WithinDepth /\ NodesOf(matchesB) \subseteq WithinDepth

\* the result of a traversal that visits the entries vis in turn, when the
\* caller passes inc for include_dirs
RECURSIVE ResultA(_, _)
ResultA(vis, inc) ==
    IF vis = <<>> THEN <<>>
    ELSE AppendedA(Head(vis), include_dirs_eff(inc)) \o ResultA(Tail(vis), inc)

RECURSIVE ResultB(_, _)
ResultB(vis, inc) ==
    IF vis = <<>> THEN <<>>
    ELSE AppendedB(Head(vis), include_dirs_eff(inc)) \o ResultB(Tail(vis), inc)

\* C3: in content-search mode every element of the result of either strategy
\* is a ContentMatch for a file with at least one matched line, never a
\* directory or a plain path, and the result is the one the traversal gives
\* when the caller passes the other value for include_dirs.
C3_ContentModeFilesOnly ==
    search_in_files =>
        /\ \A m \in Range(matchesA) \cup Range(matchesB) :
               m.kind = "content" /\ IsFile(m.path.node) /\ m.lines # <<>>
        /\ matchesA = ResultA(visitedA, ~include_dirs)
        /\ matchesB = ResultB(visitedB, ~include_dirs)

\* a content search with include_dirs = true has finished in both strategies
\* after each examined a directory whose name matches the pattern
C3_Witness ==
    /\ search_in_files /\ include_dirs /\ NoFault
    /\ pcA = "returned" /\ pcB = "returned"
    /\ matchesA # <<>> /\ matchesB # <<>>
    /\ \E n \in Range(visitedA) \cap Range(visitedB) : IsDir(n) /\ IsMatchA(n)

\* the caller's pattern with the wildcard characters removed
StripWildcards(pat) == SelectSeq(pat, LAMBDA c : c # "*" /\ c # "?")

\* the texts of the lines a result reports for file n
ReportedTexts(m, n) ==
    UNION {{m[i].lines[k][2].text : k \in DOMAIN m[i].lines} :
               i \in {j \in DOMAIN m : m[j].path.node = n}}

\* the texts of the lines of file n that the line reader keeps and that
\* contain the caller's pattern, wildcards removed, case-sensitively
ExpectedTexts(n) ==
    LET content == read_file_lines(n)
    IN  {content[i].text : i \in {j \in DOMAIN content :
             Contains(StripWildcards(pattern), content[j].text)}}

\* C4: in content-search mode a line of a scanned file is reported exactly
\* when it contains the caller's pattern (wildcards removed) as a
\* case-sensitive substring, whatever case_insensitive is.
C4_ContentCaseSensitive ==
    (search_in_files /\ NoFault) =>
        /\ pcA = "returned" =>
              \A n \in Range(visitedA) :
                  (IsFile(n) /\ ~SkippedA(n)) =>
                      ReportedTexts(matchesA, n) = ExpectedTexts(n)
        /\ pcB = "returned" =>
              \A n \in Range(visitedB) :
                  (IsFile(n) /\ ~SkippedB(n)) =>
                      ReportedTexts(matchesB, n) = ExpectedTexts(n)

\* the entries the failure of this run makes unreachable: the failed entry
\* and what lies below it, or what lies below the directory whose listing
\* failed
FailedRegion ==
    IF fault.kind = "entry"
    THEN {fault.node} \cup {n \in Nodes : Under(n, fault.node)}
    ELSE IF fault.kind = "enum" THEN {n \in Nodes : Under(n, fault.node)}
    ELSE {}

\* C5: an I/O failure on one entry or on the listing of one subdirectory
\* never aborts a traversal: the call returns normally and its result has
\* every match of the entries outside the failed entry or subtree.
C5_FailuresAreLocal ==
    BaseIsDir =>
        /\ (max_depth >= 0) => (pcA # "raised" /\ pcB # "raised")
        /\ pcA = "returned" =>
              \A n \in Nodes \ FailedRegion :
                  ~DepthExceededA(Depth(n)) =>
                      Range(AppendedA(n, include_dirs_eff(include_dirs)))
                          \subseteq Range(matchesA)
        /\ pcB = "returned" =>
              \A n \in Nodes \ FailedRegion :
                  ~DepthExceededB(n) =>
                      Range(AppendedB(n, include_dirs_eff(include_dirs)))
                          \subseteq Range(matchesB)

\* C6 as stated: with max_depth < 0 the call fails with InvalidArgument,
\* whatever base_dir is, and no filesystem access precedes the error.
C6_DepthCheckedFirst ==
    (max_depth < 0 /\ NoFault) =>
        /\ pcA # "idle" =>
              pcA = "raised" /\ errA = "InvalidArgument" /\ fsA = {}
        /\ pcB # "idle" =>
              pcB = "raised" /\ errB = "InvalidArgument" /\ fsB = {}

\* C6 (amended): with max_depth < 0 a traversal call fails with a
\* SearchError without listing any directory and without a result; the
\* existence test of base_dir (in fast_find also the directory test) comes
\* before the depth test, so the error is InvalidArgument exactly when
\* base_dir passes those tests, NotFound when base_dir does not exist and,
\* in fast_find, NotADirectory when base_dir is a file.
C6_DepthCheckedAfterBaseDir ==
    max_depth < 0 =>
        /\ pcA # "idle" =>
              /\ pcA = "raised" /\ matchesA = <<>> /\ visitedA = <<>>
              /\ "exists" \in fsA /\ "scandir" \notin fsA
              /\ errA = (IF base_dir = "missing" THEN "NotFound"
                         ELSE IF base_dir = "file" THEN "NotADirectory"
                         ELSE "InvalidArgument")
        /\ pcB # "idle" =>
              /\ pcB = "raised" /\ matchesB = <<>> /\ visitedB = <<>>
              /\ fsB = {"exists"}
              /\ errB = (IF base_dir = "missing" THEN "NotFound"
                         ELSE "InvalidArgument")

\* both strategies were called with max_depth < 0 on an existing directory
\* and both failed on the depth test
C6_Witness ==
    /\ max_depth < 0 /\ BaseIsDir
    /\ pcA = "raised" /\ errA = "InvalidArgument"
    /\ pcB = "raised" /\ errB = "InvalidArgument"

\* C7: when base_dir is a regular file, both strategies fail with the
\* not-a-directory SearchError and return no result list.
C7_FileBaseDirRejected ==
    (base_dir = "file" /\ max_depth >= 0 /\ NoFault) =>
        /\ pcA # "idle" => (pcA = "raised" /\ errA = "NotADirectory")
        /\ pcB # "idle" => (pcB = "raised" /\ errB = "NotADirectory")

\* C8: the literal a traversal strategy passes to search_in_file contains
\* neither '*' nor '?'.
C8_NeedleHasNoWildcard ==
    NoFault => \A s \in needlesA \cup needlesB :
        \A i \in DOMAIN s : s[i] # "*" /\ s[i] # "?"

\* the scenario: root/{a.py, b.txt, sub/{c.py}}, pattern "*.py",
\* max_depth = 1, include_dirs = false, no content search, no include
\* filter, no I/O failure
C9_Scenario ==
    /\ tree = 1 /\ BaseIsDir /\ NoFault
    /\ pattern = <<"*", ".", "p", "y">>
    /\ max_depth = 1
    /\ ~include_dirs /\ ~search_in_files
    /\ include_pattern = <<>>

\* C9 as stated: in the scenario both strategies return exactly {root/a.py}.
C9_BothReturnOnlyAPy ==
    C9_Scenario =>
        /\ pcA = "returned" => NodesOf(matchesA) = {1}
        /\ pcB = "returned" => NodesOf(matchesB) = {1}

\* C9 (amended): in the scenario Strategy A returns exactly
\* {root/a.py, root/sub/c.py}, c.py being at depth 1 <= max_depth, and
\* Strategy B returns exactly {root/a.py}; all are plain paths.
C9_AReturnsBothPyFiles ==
    C9_Scenario =>
        /\ pcA = "returned" =>
              /\ NodesOf(matchesA) = {1, 4}
              /\ \A m \in Range(matchesA) : m.kind = "plain"
        /\ pcB = "returned" =>
              /\ NodesOf(matchesB) = {1}
              /\ \A m \in Range(matchesB) : m.kind = "plain"

\* both strategies have returned in the scenario
C9_Witness ==
    /\ C9_Scenario
    /\ pcA = "returned" /\ matchesA # <<>>
    /\ pcB = "returned" /\ matchesB # <<>>

\* the pairs (0-based position in the file, line) of the lines of file n of
\* length <= max_line_length that contain pat
LinesInFile(pat, n) ==
    {<<i - 1, T[n].lines[i]>> : i \in {j \in DOMAIN T[n].lines :
         /\ LineLen(T[n].lines[j]) <= MAX_LINE_LENGTH
         /\ Contains(pat, T[n].lines[j].text)}}

\* C10: for a text file search_in_file returns, in file order, exactly the
\* lines of length <= max_line_length that contain the pattern, each with
\* its 0-based position in the file, also after a dropped over-long line.
C10_RealLinePositions ==
    NoFault => \A m \in Range(matchesA) \cup Range(matchesB) :
        m.kind = "content" =>
            /\ Range(m.lines) = LinesInFile(content_needle, m.path.node)
            /\ \A j, k \in DOMAIN m.lines :
                   j < k => m.lines[j][1] < m.lines[k][1]

NoDuplicates(q) == \A i, j \in DOMAIN q : i # j => q[i] # q[j]

\* what fast_find has done when it returns: no entry was processed twice and
\* no directory listed twice, no symbolic link was listed, and, when no I/O
\* failure occurred, every real subdirectory whose entries lie within the
\* depth bound was listed, whether or not its name matched
C11_EachEntryOnce ==
    /\ NoDuplicates(visitedA) /\ NoDuplicates(listedA)
    /\ \A d \in Range(listedA) : d = 0 \/ ~IsLink(d)
    /\ NoFault =>
          \A d \in Nodes :
              (IsDir(d) /\ Depth(d) + 1 <= max_depth) => d \in Range(listedA)

\* C11: on every finite tree, also with symbolic links to ancestor
\* directories, and for every max_depth >= 0, fast_find terminates, having
\* descended into every real subdirectory within the depth bound, matched or
\* not, having listed no symbolic link and having processed each entry at
\* most once.
C11_FastFindTerminates ==
    (pcA = "running") ~> (pcA = "returned" /\ C11_EachEntryOnce)

\* fast_find has returned from a tree in which it examined a symbolic link
\* to an ancestor directory and descended into a directory whose name does
\* not match
C11_Witness ==
    /\ pcA = "returned" /\ NoFault
    /\ \E n \in Range(visitedA) : IsLink(n) /\ Under(n, T[n].target)
    /\ \E d \in Range(listedA) : d # 0 /\ IsDir(d) /\ ~IsMatchA(d)

====
